---- MODULE Spec2Model ----
(***************************************************************************)
(* Hotel booking API (src/main.py, src/schemas.py): the booking store, the *)
(* availability query and the booking request built on the interval        *)
(* overlap test.                                                           *)
(*                                                                         *)
(* Calendar dates are day numbers.  A date string is a record naming what  *)
(* datetime.fromisoformat reads from it.  An ObjectId is written as its    *)
(* lower-case hex rendering; the strings a client may send for it are      *)
(* RoomIdStrings.  Pass-through payload fields that no handler reads       *)
(* (hotel_id, guest_name, guest_email, guests of a booking) are left out   *)
(* of the documents.                                                       *)
(***************************************************************************)
EXTENDS Integers, Sequences, FiniteSets, TLC

VARIABLES db, store, pending, response, probe

vars == <<db, store, pending, response, probe>>

(* ---------------------------------------------------------------- bounds *)

\* Dates are the days 1..MaxDate.
MaxDate == 3

\* The booking collection holds at most MaxBookings documents.
MaxBookings == 2

Dates == 1..MaxDate

\* Concurrent request handlers (worker threads of the server).
Procs == {1, 2}

(* ------------------------------------------------------------- documents *)

\* Rooms inserted by seed_data (two of them): _id, hotel_id, price_per_night, capacity.
Rooms ==
  { [_id |-> "a1", hotel_id |-> "h1", price_per_night |-> 320, capacity |-> 2],
    [_id |-> "b2", hotel_id |-> "h2", price_per_night |-> 280, capacity |-> 4] }

\* Hotels inserted by seed_data.
Hotels == { [_id |-> "h1"], [_id |-> "h2"] }

\* Strings a client sends as a room id: "A1" spells the id a1 in upper-case hex,
\* "c3" is a well-formed id of no room.
RoomIdStrings == {"a1", "A1", "b2", "c3"}

\* Strings a client sends as a hotel id.
HotelIdStrings == {"h1", "h2", "h3"}

\* Booking.status is any string (schemas.py:59 gives only a default).
Statuses == {"confirmed", "cancelled"}

\* Booking.total_price as sent by the client (schemas.py:58, >= 0).
PayloadTotals == {0, 1000}

\* AvailabilityQuery.guests.
GuestCounts == {1, 3}

\* bson ObjectId(s): the 12 bytes the hex digits of s denote, whatever their case
\* (bytes.fromhex), so "A1" and "a1" are one id.
ObjectId(s) == IF s = "A1" THEN "a1" ELSE s

\* str(oid): the lower-case hex rendering of an ObjectId.
Str(oid) == oid

(* ----------------------------------------------------------------- dates *)

\* date.isoformat(): "YYYY-MM-DD".
IsoFormat(d) == [kind |-> "date", ymd |-> d]

\* A string that is no ISO date.
Garbage == [kind |-> "garbage", ymd |-> 0]

\* The strings an availability query carries: dates, a date with a time, garbage.
QueryStrings ==
  {IsoFormat(d) : d \in Dates} \cup {[kind |-> "datetime", ymd |-> 1], Garbage}

\* datetime.fromisoformat(s) raises ValueError.
RaisesValueError(s) == s.kind = "garbage"

\* datetime.fromisoformat(s).date(): the calendar day, the time of day dropped.
FromIsoDate(s) == s.ymd

(* ------------------------------------------------------------- responses *)

\* A response: the HTTP status code, the error detail, and the body's fields
\* (booking_id, total_price, status of /book; the ids of the hotels and rooms
\* returned; the booking documents returned).
Resp(code, detail, bid, total, status, hotels, rooms, items) ==
  [code |-> code, detail |-> detail, booking_id |-> bid, total_price |-> total,
   status |-> status, hotels |-> hotels, rooms |-> rooms, items |-> items]

NoResponse == Resp(0, "", 0, 0, "", {}, {}, <<>>)

HTTPException(code, detail) == Resp(code, detail, 0, 0, "", {}, {}, <<>>)

DbNotConfigured == HTTPException(500, "Database not configured")

(* ------------------------------------------------------------- overlap   *)

\* The conflict test of check_availability.
AvailabilityOverlap(ci, co, b_ci, b_co) == ~(co <= b_ci \/ ci >= b_co)

\* The conflict test with its first comparison made strict.
BookingOverlapStrict(ci, co, b_ci, b_co) == ~(co < b_ci \/ ci >= b_co)

\* The conflict test of create_booking.
BookingOverlap(ci, co, b_ci, b_co) == ~(co <= b_ci \/ ci >= b_co)

(* --------------------------------------------------------------- storage *)

\* db["booking"].find({"room_id": room_id}): the documents whose room_id field is
\* that very string, in insertion order.
FindBookings(st, room_id) == SelectSeq(st, LAMBDA b : b.room_id = room_id)

\* db["room"].find_one({"_id": oid}): the rooms with that id (none or one).
FindRoom(oid) == {r \in Rooms : r._id = oid}

\* create_document("booking", doc): the document is appended to the collection.
CreateDocument(st, doc) == Append(st, doc)

\* get_documents(collection) has no store to read.
GetDocumentsFails(d) == d = "none"

\* The id create_document returns for a document appended to st.
InsertedId(st) == Len(st) + 1

(* ---------------------------------------------------- check_availability *)

\* The loop over a room's bookings: TRUE when one of them overlaps [ci, co).
RoomHasOverlap(st, room, ci, co) ==
  LET bookings == FindBookings(st, Str(room._id))
  IN  \E i \in 1..Len(bookings) :
        AvailabilityOverlap(ci, co, FromIsoDate(bookings[i].check_in),
                                    FromIsoDate(bookings[i].check_out))

\* available_rooms: the ids of the hotel's rooms that pass both tests.
AvailableRooms(st, hotel_id, ci, co, guests) ==
  { Str(room._id) : room \in
      { r \in Rooms : /\ r.hotel_id = hotel_id
                      /\ ~RoomHasOverlap(st, r, ci, co)
                      /\ guests <= r.capacity } }

\* The response of POST /availability/{hotel_id}.
AvailabilityResponse(d, st, hotel_id, q) ==
  IF d = "none" THEN DbNotConfigured
  ELSE IF RaisesValueError(q.check_in) \/ RaisesValueError(q.check_out)
  THEN HTTPException(400, "Invalid date format, use YYYY-MM-DD")
  ELSE LET ci == FromIsoDate(q.check_in)
           co == FromIsoDate(q.check_out)
       IN  IF co <= ci
           THEN HTTPException(400, "Check-out must be after check-in")
           ELSE Resp(200, "", 0, 0, "", {},
                     AvailableRooms(st, hotel_id, ci, co, q.guests), <<>>)

(* -------------------------------------------------------- create_booking *)

\* Lines 187-208: the room lookup, the fetch of the room's bookings and the loop
\* of conflict tests.  pass is TRUE when none raised; resp is the error otherwise.
\* payload.check_in and check_out are dates (schemas.py:55-56), so the string
\* branch of lines 199-202 is never taken; no line compares check_out with check_in.
BookingCheck(d, st, payload) ==
  IF d = "none" THEN [pass |-> FALSE, resp |-> DbNotConfigured]
  ELSE IF FindRoom(ObjectId(payload.room_id)) = {}
  THEN [pass |-> FALSE, resp |-> HTTPException(404, "Room not found")]
  ELSE LET bookings == FindBookings(st, payload.room_id)
           ci == payload.check_in
           co == payload.check_out
       IN  IF \E i \in 1..Len(bookings) :
                 BookingOverlap(ci, co, FromIsoDate(bookings[i].check_in),
                                        FromIsoDate(bookings[i].check_out))
           THEN [pass |-> FALSE,
                 resp |-> HTTPException(400, "Selected dates overlap with an existing booking")]
           ELSE [pass |-> TRUE, resp |-> NoResponse]

\* Lines 210-212: nights and total for a payload whose room exists.
BookingTotal(payload) ==
  LET room == CHOOSE r \in Rooms : r._id = ObjectId(payload.room_id)
      nights == payload.check_out - payload.check_in
  IN  nights * room.price_per_night

\* Lines 214-217: the document stored, the payload's own fields with the dates
\* as strings and the total replaced.
BookingDoc(payload) ==
  [room_id |-> payload.room_id,
   check_in |-> IsoFormat(payload.check_in),
   check_out |-> IsoFormat(payload.check_out),
   status |-> payload.status,
   total_price |-> BookingTotal(payload)]

\* Line 220: the response of a booking stored under id bid.
BookingResponse(bid, payload) ==
  Resp(200, "", bid, BookingTotal(payload), "confirmed", {}, {}, <<>>)

\* The payloads of POST /book that pass the schema (schemas.py:50-59).
Payloads ==
  [room_id : RoomIdStrings, check_in : Dates, check_out : Dates,
   status : Statuses, total_price : PayloadTotals]

\* The bodies of POST /availability.
Queries == [check_in : QueryStrings, check_out : QueryStrings, guests : GuestCounts]

\* create_booking storing its document before the conflict is raised.
CreateBookingStoreBeforeCheck(d, st, payload) ==
  IF d = "connected" /\ FindRoom(ObjectId(payload.room_id)) # {}
  THEN CreateDocument(st, BookingDoc(payload))
  ELSE st

\* The booking collection after the whole of create_booking: one document more
\* when every check passed, the same collection when an error was raised.
CreateBookingStore(d, st, payload) ==
  IF BookingCheck(d, st, payload).pass
  THEN CreateDocument(st, BookingDoc(payload))
  ELSE st

(* ------------------------------------------------------------ the probe  *)

\* Two date ranges handed to the conflict tests in both orders, and the verdicts.
Probe(a_ci, a_co, b_ci, b_co, done, bk_ab, bk_ba, av_ab, av_ba) ==
  [a_ci |-> a_ci, a_co |-> a_co, b_ci |-> b_ci, b_co |-> b_co, done |-> done,
   bk_ab |-> bk_ab, bk_ba |-> bk_ba, av_ab |-> av_ab, av_ba |-> av_ba]

NoProbe == Probe(0, 0, 0, 0, FALSE, FALSE, FALSE, FALSE, FALSE)

(* ------------------------------------------------------------------ Init *)

Init ==
  /\ db \in {"connected", "none"}
  /\ store = <<>>
  /\ pending = [p \in Procs |-> <<>>]
  /\ response = NoResponse
  /\ probe = NoProbe

(* --------------------------------------------- handlers, one request each *)

\* POST /book, the whole handler.
CreateBooking(payload) ==
  /\ \A p \in Procs : pending[p] = <<>>
  /\ BookingCheck(db, store, payload).pass => Len(store) < MaxBookings
  /\ store' = CreateBookingStore(db, store, payload)
  /\ response' = IF BookingCheck(db, store, payload).pass
                 THEN BookingResponse(InsertedId(store), payload)
                 ELSE BookingCheck(db, store, payload).resp
  /\ UNCHANGED <<db, pending, probe>>

\* POST /availability/{hotel_id}.
CheckAvailability(hotel_id, q) ==
  /\ response' = AvailabilityResponse(db, store, hotel_id, q)
  /\ UNCHANGED <<db, store, pending, probe>>

\* GET /hotels.
ListHotels ==
  /\ response' = IF GetDocumentsFails(db) THEN DbNotConfigured
                 ELSE Resp(200, "", 0, 0, "", {Str(h._id) : h \in Hotels}, {}, <<>>)
  /\ UNCHANGED <<db, store, pending, probe>>

\* GET /hotels/{hotel_id}.
GetHotel(hotel_id) ==
  /\ response' = IF db = "none" THEN DbNotConfigured
                 ELSE IF {h \in Hotels : h._id = ObjectId(hotel_id)} = {}
                 THEN HTTPException(404, "Hotel not found")
                 ELSE Resp(200, "", 0, 0, "", {Str(ObjectId(hotel_id))},
                           {Str(r._id) : r \in {x \in Rooms : x.hotel_id = hotel_id}}, <<>>)
  /\ UNCHANGED <<db, store, pending, probe>>

\* GET /bookings.
ListBookings ==
  /\ response' = IF GetDocumentsFails(db) THEN DbNotConfigured
                 ELSE Resp(200, "", 0, 0, "", {}, {}, store)
  /\ UNCHANGED <<db, store, pending, probe>>

Next ==
  \/ \E payload \in Payloads : CreateBooking(payload)
  \/ \E hotel_id \in HotelIdStrings, q \in Queries : CheckAvailability(hotel_id, q)
  \/ ListHotels
  \/ \E hotel_id \in HotelIdStrings : GetHotel(hotel_id)
  \/ ListBookings

\* Requests handled one at a time.
Spec == Init /\ [][Next]_vars

(* ------------------------------------ create_booking on concurrent workers *)

\* Requests in flight between their conflict check and their insert.
InFlight == Cardinality({p \in Procs : pending[p] # <<>>})

\* Lines 187-208 on worker p: an error is returned at once, a payload that
\* passed waits for its insert.
BookFetchCheck(p, payload) ==
  /\ pending[p] = <<>>
  /\ IF BookingCheck(db, store, payload).pass
     THEN /\ Len(store) + InFlight < MaxBookings
          /\ pending' = [pending EXCEPT ![p] = <<payload>>]
          /\ UNCHANGED response
     ELSE /\ response' = BookingCheck(db, store, payload).resp
          /\ UNCHANGED pending
  /\ UNCHANGED <<db, store, probe>>

\* An insert that tests the collection again and stores nothing on a conflict.
InsertStoreRechecked(st, payload) ==
  IF BookingCheck("connected", st, payload).pass
  THEN CreateDocument(st, BookingDoc(payload))
  ELSE st

\* The collection after lines 210-219 on a payload that passed its check.
InsertStore(st, payload) == CreateDocument(st, BookingDoc(payload))

\* Lines 210-220 on worker p.
BookInsert(p) ==
  /\ pending[p] # <<>>
  /\ store' = InsertStore(store, pending[p][1])
  /\ response' = BookingResponse(InsertedId(store), pending[p][1])
  /\ pending' = [pending EXCEPT ![p] = <<>>]
  /\ UNCHANGED <<db, probe>>

NextConc ==
  \/ \E p \in Procs, payload \in Payloads : BookFetchCheck(p, payload)
  \/ \E p \in Procs : BookInsert(p)

SpecConc == Init /\ [][NextConc]_vars

(* ------------------------------------------- the conflict tests on their own *)

InitOverlap ==
  /\ db = "connected"
  /\ store = <<>>
  /\ pending = [p \in Procs |-> <<>>]
  /\ response = NoResponse
  /\ probe \in {Probe(a, b, c, d, FALSE, FALSE, FALSE, FALSE, FALSE) :
                  a \in Dates, b \in Dates, c \in Dates, d \in Dates}

EvaluateOverlap ==
  /\ ~probe.done
  /\ probe' = Probe(probe.a_ci, probe.a_co, probe.b_ci, probe.b_co, TRUE,
                    BookingOverlap(probe.a_ci, probe.a_co, probe.b_ci, probe.b_co),
                    BookingOverlap(probe.b_ci, probe.b_co, probe.a_ci, probe.a_co),
                    AvailabilityOverlap(probe.a_ci, probe.a_co, probe.b_ci, probe.b_co),
                    AvailabilityOverlap(probe.b_ci, probe.b_co, probe.a_ci, probe.a_co))
  /\ UNCHANGED <<db, store, pending, response>>

NextOverlap == EvaluateOverlap

SpecOverlap == InitOverlap /\ [][NextOverlap]_vars

(* ---------------------------------------------------------------- claims *)

\* The nights of the half-open range [ci, co).
Nights(ci, co) == {d \in Dates : ci <= d /\ d < co}

\* Two ranges have a night in common.
ShareNight(a_ci, a_co, b_ci, b_co) == Nights(a_ci, a_co) \cap Nights(b_ci, b_co) # {}

\* The overlap contract of the design: a < d and c < b.
ContractOverlap(a, b, c, d) == a < d /\ c < b

\* Two room id strings name the same room.
SameRoom(x, y) == ObjectId(x) = ObjectId(y)

DocIn(b) == FromIsoDate(b.check_in)

DocOut(b) == FromIsoDate(b.check_out)

\* A payload the booking handler gets as far as checking: storage is there and
\* the room exists.
Checkable(payload) == db = "connected" /\ FindRoom(ObjectId(payload.room_id)) # {}

\* C1: a booking request whose check_out is on or before its check_in is rejected
\* with a 400 error and persists nothing, whatever the room and the stored bookings.
C1_InvalidRangeRejected ==
  [][\A payload \in Payloads :
       (payload.check_out <= payload.check_in /\ Checkable(payload)
          /\ CreateBooking(payload))
       => (store' = store /\ response'.code = 400)]_vars

\* C1: a stored booking of zero or negative nights, reported as a success.
C1_Witness ==
  /\ Len(store) > 0
  /\ DocOut(store[Len(store)]) <= DocIn(store[Len(store)])
  /\ response.code = 200

\* C2: the insert of a request that passed its conflict check persists its booking
\* whatever was inserted since the check: nothing re-examines the collection.
C2_InsertNotExcluded ==
  [][\A p \in Procs :
       (pending[p] # <<>> /\ pending'[p] = <<>>)
       => (/\ Len(store') = Len(store) + 1
           /\ store'[Len(store')] = BookingDoc(pending[p][1])
           /\ response'.code = 200)]_vars

\* C2: two bookings of one room id with a night in common are both stored.
C2_DoubleBooking ==
  /\ Len(store) = 2
  /\ store[1].room_id = store[2].room_id
  /\ ShareNight(DocIn(store[1]), DocOut(store[1]), DocIn(store[2]), DocOut(store[2]))

\* C3: for an existing room a booking request fails with the conflict error exactly
\* when its range overlaps the range of a booking stored for that same room.
C3_ConflictIffOverlap ==
  \A payload \in Payloads :
    Checkable(payload) =>
      ( (BookingCheck(db, store, payload).resp.code = 400)
        <=> \E i \in 1..Len(store) :
              /\ SameRoom(store[i].room_id, payload.room_id)
              /\ ContractOverlap(payload.check_in, payload.check_out,
                                 DocIn(store[i]), DocOut(store[i])) )

\* C4: the available set of a valid query holds a room of the hotel exactly when
\* no booking stored for that room overlaps the range and the guests fit.
C4_AvailableIffFree ==
  \A hotel_id \in HotelIdStrings, ci \in Dates, co \in Dates, g \in GuestCounts :
    co > ci =>
      AvailableRooms(store, hotel_id, ci, co, g)
        = { r._id : r \in
              { x \in Rooms :
                  /\ x.hotel_id = hotel_id
                  /\ g <= x.capacity
                  /\ ~\E i \in 1..Len(store) :
                        /\ SameRoom(store[i].room_id, Str(x._id))
                        /\ ContractOverlap(ci, co, DocIn(store[i]), DocOut(store[i])) } }

\* C5: a booking just stored has status "confirmed", the status the response reports.
C5_StoredConfirmed ==
  [][store' # store =>
       /\ store'[Len(store')].status = "confirmed"
       /\ store'[Len(store')].status = response'.status]_vars

\* C5: a stored booking whose status is not the "confirmed" of its response.
C5_Witness ==
  /\ Len(store) > 0
  /\ response.code = 200 /\ response.booking_id = Len(store)
  /\ store[Len(store)].status # response.status

\* C6: a booking just stored has a positive number of nights and a total_price of
\* nights times the room's price_per_night, the value the response returns.
C6_TotalIsNightsTimesPrice ==
  [][store' # store =>
       LET b == store'[Len(store')]
           nights == DocOut(b) - DocIn(b)
           room == CHOOSE r \in Rooms : r._id = ObjectId(b.room_id)
       IN  /\ nights > 0
           /\ b.total_price = nights * room.price_per_night
           /\ response'.total_price = b.total_price]_vars

\* C6: a stored booking whose total is not positive.
C6_Witness ==
  /\ Len(store) > 0
  /\ store[Len(store)].total_price <= 0

\* C7: each conflict test a handler evaluates, on a candidate range and a stored
\* booking's range, reports an overlap exactly when the two ranges share a night.
C7_OverlapIffShareNight ==
  /\ \A ci \in Dates, co \in Dates, i \in 1..Len(store) :
       co > ci =>
         ( AvailabilityOverlap(ci, co, DocIn(store[i]), DocOut(store[i]))
           <=> ShareNight(ci, co, DocIn(store[i]), DocOut(store[i])) )
  /\ \A payload \in Payloads, i \in 1..Len(store) :
       (Checkable(payload) /\ store[i].room_id = payload.room_id) =>
         ( BookingOverlap(payload.check_in, payload.check_out,
                          DocIn(store[i]), DocOut(store[i]))
           <=> ShareNight(payload.check_in, payload.check_out,
                          DocIn(store[i]), DocOut(store[i])) )

\* C8: the conflict tests give the same verdict on two ranges in either order.
C8_OverlapSymmetric ==
  probe.done => (probe.bk_ab = probe.bk_ba /\ probe.av_ab = probe.av_ba)

\* C8: two different ranges, one of no nights, tested in both orders and found
\* to overlap.
C8_Witness ==
  /\ probe.done /\ probe.bk_ab /\ probe.av_ba
  /\ probe.a_ci = probe.a_co
  /\ probe.b_ci < probe.b_co

\* C9: the booking collection changes only by a successful booking request, which
\* appends one document and leaves the others as they were; reads and rejected
\* requests leave it unchanged.
C9_StoreAppendOnly ==
  [][\/ store' = store
     \/ /\ Len(store') = Len(store) + 1
        /\ SubSeq(store', 1, Len(store)) = store
        /\ response'.code = 200
        /\ response'.booking_id = Len(store')]_vars

\* C9: a request rejected for conflict after two bookings were stored.
C9_Witness ==
  /\ Len(store) = 2
  /\ response.code = 400
  /\ response.detail = "Selected dates overlap with an existing booking"

\* C10: with requests handled one at a time, no two stored bookings of one room
\* have a night in common.
C10_NoDoubleBooking ==
  \A i \in 1..Len(store), j \in 1..Len(store) :
    (i < j /\ SameRoom(store[i].room_id, store[j].room_id)) =>
      ~ShareNight(DocIn(store[i]), DocOut(store[i]), DocIn(store[j]), DocOut(store[j]))

====
